---- MODULE Spec2Model ----
(***************************************************************************)
(* CryptoScan front end: the daily usage limiter of services/firebase.js   *)
(* (rateLimitService) and the image analysis pipeline of App.jsx           *)
(* (handleImageAnalysis, convertToCrypto) with the helpers of              *)
(* services/api.js.                                                        *)
(*                                                                         *)
(* Money is counted in cents (integers).  Every await of the source is a   *)
(* suspension point, so every handler is cut into one action per await.    *)
(***************************************************************************)
EXTENDS Integers, Sequences, FiniteSets, TLC

VARIABLES
    \* ---- services/firebase.js ------------------------------------------
    dailyUsage,     \* the 'dailyUsage' collection: docId -> NoDoc or a document
    today,          \* the calendar day new Date().toISOString() yields
    now,            \* the time, in ticks of UTC since the start of day 1
    tzOffset,       \* local time minus UTC, in ticks: -getTimezoneOffset()
    maxUsesPerDay,  \* the limit the callers pass to checkDailyLimit
    fingerprint,    \* per caller: what generateUserId() yields in its environment
    call,           \* per caller: the checkDailyLimit invocation in flight
    numCalls,       \* checkDailyLimit invocations started so far
    allowedCalls,   \* history: per docId, the invocations that returned success
    env,            \* the browser the callers run in: which signals it offers
    usage,          \* per caller: the getCurrentUsage invocation in flight
    numUsageCalls,  \* getCurrentUsage invocations started so far
    \* ---- App.jsx: the component's state (useState) ---------------------
    isLoading,
    capturedImage,
    analysisResult,
    productPrice,
    cryptoConversions,
    selectedCryptos,
    error,
    \* ---- App.jsx: work in flight ---------------------------------------
    pendingReads,   \* FileReader reads started by handleFileUpload, not yet loaded
    task,           \* per slot: the handleImageAnalysis invocation in flight
    numStarts,      \* images submitted so far (captures and uploads)
    cryptoPrices,   \* useState({}): the rates loadCryptoPrices stored last
    priceLoads,     \* loadCryptoPrices requests in flight: the ids each asked for
    numLoads,       \* loadCryptoPrices invocations started so far
    readClosures,   \* per FileReader read in flight: selectedCryptos as its onload sees it
    numToggles,     \* toggleCrypto invocations so far
    \* ---- services/api.js: priceUtils called on its own ------------------
    searchResults,  \* the list a caller holds and passes to priceUtils
    returned,       \* what extractPricesFromSearchResults returned, call by call
    \* ---- services/api.js: geminiService.fallbackParseResponse ----------
    responseText,   \* the text passed: what each of its patterns captures
    detectedObjects,\* the labels passed
    parsed,         \* the object returned, once the call is over
    \* ---- services/firebase.js: generateUserId in two environments ------
    signals,        \* per environment: the texts generateUserId concatenates
    userIds         \* per environment: the id generateUserId returned, if called

clockVars == <<now, tzOffset>>

usageVars == <<env, usage, numUsageCalls>>

quotaVars == <<dailyUsage, today, clockVars, maxUsesPerDay, fingerprint, call,
              numCalls, allowedCalls, usageVars>>

uiVars == <<isLoading, capturedImage, analysisResult, productPrice,
            cryptoConversions, selectedCryptos, error>>

ratesVars == <<cryptoPrices, priceLoads, numLoads>>

closureVars == <<readClosures, numToggles>>

appVars == <<uiVars, pendingReads, task, numStarts, ratesVars, closureVars>>

utilVars == <<searchResults, returned>>

parserVars == <<responseText, detectedObjects, parsed>>

signalVars == <<signals, userIds>>

helperVars == <<utilVars, parserVars, signalVars>>

vars == <<quotaVars, appVars, helperVars>>

----------------------------------------------------------------------------
\* Bounds of the model.

\* Largest daily limit a caller configures (the source's default is 10).
MaxLimit == 2
\* Invocations of rateLimitService explored in one behaviour.
MaxCalls == 5
\* Calendar days explored.
MaxDay == 2

\* Concurrent callers of checkDailyLimit (browser tabs, devices); its size is
\* the number of invocations that can be in flight at once.
Callers == {"c1", "c2"}
\* Values generateUserId() yields in the environments of the callers.
Fingerprints == {"user_A", "user_B"}
\* Messages of the errors the document store raises.
StoreErrors == {"unavailable", "permission-denied"}

Null == "null"

\* Two browsers whose ids are compared.
Environments == {"e1", "e2"}
\* The texts generateUserId concatenates, as character codes: the user agent,
\* and language, platform, screen size, timezone offset and canvas tail.
Signals(userAgent, rest) == [userAgent |-> userAgent, rest |-> rest]
NoSignals == Signals(<<>>, <<>>)
\* A snapshot for which docSnap.exists() is false.
NoDoc == [exists |-> FALSE, count |-> 0]
\* A stored document; of its fields only count is read back.
Doc(count) == [exists |-> TRUE, count |-> count]

----------------------------------------------------------------------------
\* services/firebase.js : rateLimitService

Days == 1..MaxDay

\* The clock counts ticks; a calendar day of UTC has TicksPerDay of them.
TicksPerDay == 2

\* new Date().toISOString().split('T')[0]: the calendar day of UTC.
UtcDay(time) == (time \div TicksPerDay) + 1

\* resetTime = new Date(); setDate(getDate() + 1); setHours(0, 0, 0, 0):
\* the next midnight of the local calendar, as a time of the clock.
ResetTimeOf(time, offset) ==
    (((time + offset) \div TicksPerDay) + 1) * TicksPerDay - offset
DocIds == Fingerprints \X Days

\* A browser in which every signal generateUserId reads is available, one
\* whose canvas gives no 2d context (getContext('2d') is null), and one
\* whose signal text holds a character btoa cannot encode.
Browser(canvas2d, latin1) == [canvas2d |-> canvas2d, latin1 |-> latin1]
FullBrowser == Browser(TRUE, TRUE)
Browsers == {FullBrowser, Browser(FALSE, TRUE), Browser(TRUE, FALSE)}

NullContextMessage == "Cannot set properties of null (setting 'textBaseline')"
InvalidCharacterMessage == "Invalid character"

\* generateUserId() in browser b, where signature is the value the signals
\* of b encode to.  ctx.textBaseline = 'top' throws on a null context and
\* btoa throws on a character above U+00FF; nothing catches either.
GenerateUserId(b, signature) ==
    IF ~b.canvas2d
    THEN [ok |-> FALSE, userId |-> Null, message |-> NullContextMessage]
    ELSE IF ~b.latin1
         THEN [ok |-> FALSE, userId |-> Null, message |-> InvalidCharacterMessage]
         ELSE [ok |-> TRUE, userId |-> signature, message |-> Null]

\* `${userId}_${today}`
DocIdOf(userId, day) == <<userId, day>>

DailyLimitMessage == "Daily limit of N scans reached! Resets at midnight."
UnableMessage == "Unable to verify usage limit. Please try again."

\* error.message.includes('Daily limit')
IncludesDailyLimit(message) == message = DailyLimitMessage

\* data.count || 0 (a count of 0 and a missing count both read as 0)
CountOf(doc) == doc.count

\* if (currentCount >= maxUsesPerDay) throw ...
\* (LimitReached_Strict: the comparison written with > instead.)
LimitReached_Strict(currentCount, max) == currentCount > max
LimitReached(currentCount, max) == currentCount >= max

\* count: currentCount + 1
\* (IncrementedCount_Stale: the count written back without the increment.)
IncrementedCount_Stale(currentCount) == currentCount
IncrementedCount(currentCount) == currentCount + 1

\* The value of a successful return.
Allowed(count, max) ==
    [success |-> TRUE, currentCount |-> count, remaining |-> max - count,
     message |-> Null]

Thrown(message) ==
    [success |-> FALSE, currentCount |-> 0, remaining |-> 0, message |-> message]

NoResult == Thrown(Null)

\* catch (error): the daily limit error is re-thrown, any other error becomes
\* the generic one.
\* (CatchError_FailOpen: any other error answered as getCurrentUsage answers
\* it, with the full quota.)
CatchError_FailOpen(message) ==
    IF IncludesDailyLimit(message) THEN Thrown(message)
    ELSE Allowed(0, maxUsesPerDay)
CatchError(message) ==
    IF IncludesDailyLimit(message) THEN Thrown(message) ELSE Thrown(UnableMessage)

IdleCall ==
    [pc |-> "idle", docId |-> <<Null, 0>>, snap |-> NoDoc, currentCount |-> 0,
     result |-> NoResult, solo |-> TRUE, wrote |-> FALSE, failedAt |-> Null,
     startedAt |-> 0, resetTime |-> 0, returnedAt |-> 0]

InFlight(c) == call[c].pc # "idle"

\* History: an invocation that leaves with a success result is counted.
Returned(c, result) ==
    allowedCalls' = IF result.success
                    THEN [allowedCalls EXCEPT ![call[c].docId] = @ + 1]
                    ELSE allowedCalls

\* checkDailyLimit up to its first await: the document id is fixed and the
\* read is issued.  solo records whether another invocation on the same
\* document overlaps this one.
CheckDailyLimit(c) ==
    /\ UNCHANGED <<appVars, helperVars, clockVars, usageVars>>
    /\ call[c].pc = "idle"
    /\ numCalls + numUsageCalls < MaxCalls
    /\ LET generated == GenerateUserId(env, fingerprint[c])
           id == DocIdOf(generated.userId, today)
           overlap == \E o \in Callers \ {c} : InFlight(o) /\ call[o].docId = id
       IN IF generated.ok
          THEN call' = [o \in Callers |->
                     IF o = c
                     THEN [IdleCall EXCEPT !.pc = "getDoc", !.docId = id,
                                           !.solo = ~overlap,
                                           !.startedAt = now,
                                           !.resetTime =
                                              ResetTimeOf(now, tzOffset)]
                     ELSE IF InFlight(o) /\ call[o].docId = id
                          THEN [call[o] EXCEPT !.solo = FALSE]
                          ELSE call[o]]
          ELSE call' = [call EXCEPT ![c] =
                          [IdleCall EXCEPT !.pc = "returned",
                                           !.failedAt = "generateUserId",
                                           !.startedAt = now,
                                           !.returnedAt = now,
                                           !.result = CatchError(generated.message)]]
    /\ numCalls' = numCalls + 1
    /\ UNCHANGED <<dailyUsage, today, maxUsesPerDay, fingerprint, allowedCalls>>

\* getDoc resolves: the limit test, then the write is issued or the daily
\* limit error leaves through the catch block.
GetDoc(c) ==
    /\ UNCHANGED <<appVars, helperVars, clockVars, usageVars>>
    /\ call[c].pc = "getDoc"
    /\ LET doc == dailyUsage[call[c].docId]
           currentCount == CountOf(doc)
       IN IF doc.exists
          THEN IF LimitReached(currentCount, maxUsesPerDay)
               THEN LET result == CatchError(DailyLimitMessage)
                    IN /\ call' = [call EXCEPT ![c].pc = "returned", ![c].returnedAt = now,
                                               ![c].snap = doc,
                                               ![c].currentCount = currentCount,
                                               ![c].result = result]
                       /\ Returned(c, result)
               ELSE /\ call' = [call EXCEPT ![c].pc = "updateDoc",
                                            ![c].snap = doc,
                                            ![c].currentCount = currentCount]
                    /\ UNCHANGED allowedCalls
          ELSE /\ call' = [call EXCEPT ![c].pc = "setDoc", ![c].snap = NoDoc]
               /\ UNCHANGED allowedCalls
    /\ UNCHANGED <<dailyUsage, today, maxUsesPerDay, fingerprint, numCalls>>

\* updateDoc resolves: the count read earlier, plus one, is stored.
UpdateDoc(c) ==
    /\ UNCHANGED <<appVars, helperVars, clockVars, usageVars>>
    /\ call[c].pc = "updateDoc"
    /\ LET count == IncrementedCount(call[c].currentCount)
           result == Allowed(count, maxUsesPerDay)
       IN /\ dailyUsage' = [dailyUsage EXCEPT ![call[c].docId] = Doc(count)]
          /\ call' = [call EXCEPT ![c].pc = "returned", ![c].returnedAt = now, ![c].wrote = TRUE,
                                  ![c].result = result]
          /\ Returned(c, result)
    /\ UNCHANGED <<today, maxUsesPerDay, fingerprint, numCalls>>

\* setDoc resolves: the document is replaced by a first-use document.
SetDoc(c) ==
    /\ UNCHANGED <<appVars, helperVars, clockVars, usageVars>>
    /\ call[c].pc = "setDoc"
    /\ LET result == Allowed(1, maxUsesPerDay)
       IN /\ dailyUsage' = [dailyUsage EXCEPT ![call[c].docId] = Doc(1)]
          /\ call' = [call EXCEPT ![c].pc = "returned", ![c].returnedAt = now, ![c].wrote = TRUE,
                                  ![c].result = result]
          /\ Returned(c, result)
    /\ UNCHANGED <<today, maxUsesPerDay, fingerprint, numCalls>>

\* getDoc, updateDoc or setDoc rejects: the catch block decides the outcome.
StoreFails(c) ==
    /\ UNCHANGED <<appVars, helperVars, clockVars, usageVars>>
    /\ call[c].pc \in {"getDoc", "updateDoc", "setDoc"}
    /\ \E message \in StoreErrors :
         LET result == CatchError(message)
         IN /\ call' = [call EXCEPT ![c].pc = "returned", ![c].returnedAt = now,
                                    ![c].failedAt = call[c].pc,
                                    ![c].result = result]
            /\ Returned(c, result)
    /\ UNCHANGED <<dailyUsage, today, maxUsesPerDay, fingerprint, numCalls>>

\* The caller takes the outcome of its invocation.
TakeResult(c) ==
    /\ UNCHANGED <<appVars, helperVars, clockVars, usageVars>>
    /\ call[c].pc = "returned"
    /\ call' = [call EXCEPT ![c] = IdleCall]
    /\ UNCHANGED <<dailyUsage, today, maxUsesPerDay, fingerprint, numCalls,
                   allowedCalls>>

\* The calendar day changes.
NextDay ==
    /\ UNCHANGED <<appVars, helperVars, usageVars>>
    /\ today < MaxDay
    /\ today' = today + 1
    /\ now' = now + TicksPerDay
    /\ UNCHANGED <<tzOffset, dailyUsage, maxUsesPerDay, fingerprint, call, numCalls,
                   allowedCalls>>

\* The value getCurrentUsage returns.
UsageOf(used, max) == [used |-> used, remaining |-> max - used, total |-> max]

\* catch (error) of getCurrentUsage: the full quota is reported.
\* (UsageCatch_Rethrows: the catch block throws the error on.)
UsageCatch_Rethrows(max) == [used |-> -1, remaining |-> -1, total |-> -1]
UsageCatch(max) == UsageOf(0, max)

\* The value thrown out of getCurrentUsage is written as a result of -1s.
UsageThrew(result) == result.total = -1

IdleUsage ==
    [pc |-> "idle", docId |-> <<Null, 0>>, result |-> UsageOf(0, 0),
     failedAt |-> Null]

\* getCurrentUsage up to its await: the document id is fixed and the read is
\* issued, or generateUserId throws into the catch block.
GetCurrentUsage(c) ==
    /\ UNCHANGED <<appVars, helperVars, clockVars>>
    /\ usage[c].pc = "idle"
    /\ numCalls + numUsageCalls < MaxCalls
    /\ LET generated == GenerateUserId(env, fingerprint[c])
       IN usage' = [usage EXCEPT ![c] =
            IF generated.ok
            THEN [IdleUsage EXCEPT !.pc = "getDoc",
                                   !.docId = DocIdOf(generated.userId, today)]
            ELSE [IdleUsage EXCEPT !.pc = "returned",
                                   !.failedAt = "generateUserId",
                                   !.result = UsageCatch(maxUsesPerDay)]]
    /\ numUsageCalls' = numUsageCalls + 1
    /\ UNCHANGED <<dailyUsage, today, maxUsesPerDay, fingerprint, call,
                   numCalls, allowedCalls, env>>

\* getDoc resolves in getCurrentUsage: the count stored is reported.
UsageGetDoc(c) ==
    /\ UNCHANGED <<appVars, helperVars, clockVars>>
    /\ usage[c].pc = "getDoc"
    /\ LET doc == dailyUsage[usage[c].docId]
       IN usage' = [usage EXCEPT
                      ![c].pc = "returned",
                      ![c].result = IF doc.exists
                                    THEN UsageOf(CountOf(doc), maxUsesPerDay)
                                    ELSE UsageOf(0, maxUsesPerDay)]
    /\ UNCHANGED <<dailyUsage, today, maxUsesPerDay, fingerprint, call,
                   numCalls, allowedCalls, env, numUsageCalls>>

\* getDoc rejects in getCurrentUsage.
UsageStoreFails(c) ==
    /\ UNCHANGED <<appVars, helperVars, clockVars>>
    /\ usage[c].pc = "getDoc"
    /\ usage' = [usage EXCEPT ![c].pc = "returned",
                              ![c].failedAt = "getDoc",
                              ![c].result = UsageCatch(maxUsesPerDay)]
    /\ UNCHANGED <<dailyUsage, today, maxUsesPerDay, fingerprint, call,
                   numCalls, allowedCalls, env, numUsageCalls>>

\* The caller takes what getCurrentUsage returned.
TakeUsage(c) ==
    /\ UNCHANGED <<appVars, helperVars, clockVars>>
    /\ usage[c].pc = "returned"
    /\ usage' = [usage EXCEPT ![c] = IdleUsage]
    /\ UNCHANGED <<dailyUsage, today, maxUsesPerDay, fingerprint, call,
                   numCalls, allowedCalls, env, numUsageCalls>>

QuotaNext ==
    \/ \E c \in Callers : CheckDailyLimit(c)
    \/ \E c \in Callers : GetDoc(c)
    \/ \E c \in Callers : UpdateDoc(c)
    \/ \E c \in Callers : SetDoc(c)
    \/ \E c \in Callers : StoreFails(c)
    \/ \E c \in Callers : TakeResult(c)
    \/ NextDay

----------------------------------------------------------------------------
\* JavaScript values.  null/undefined is None and a present value v is
\* Some(v); an absent string is Null.

None == <<>>
Some(v) == <<v>>

\* Truthiness of a number that may be absent: absent and 0 are falsy.
TruthyNum(o) == o # None /\ o[1] # 0
\* Truthiness of a string that may be absent: absent and "" are falsy.
TruthyStr(str) == str # Null /\ str # ""

----------------------------------------------------------------------------
\* Bounds and inputs of the analysis model.

\* Images submitted (captured or uploaded) in one behaviour.
MaxStarts == 3

\* Slots for handleImageAnalysis invocations; at most this many overlap.
Tasks == {"t1", "t2"}

\* What visionService.analyzeImage yields: a rejection, no label, two labels.
VisionOutcomes ==
    { [ok |-> FALSE, labels |-> <<>>],
      [ok |-> TRUE, labels |-> <<>>],
      [ok |-> TRUE, labels |-> <<"Mug", "Cup">>] }

GeminiRecord(name, min, max, conf) ==
    [ok |-> TRUE, product_name |-> name, estimated_price_min |-> min,
     estimated_price_max |-> max, confidence |-> conf]

\* geminiResult = null
GeminiNull ==
    [ok |-> FALSE, product_name |-> Null, estimated_price_min |-> None,
     estimated_price_max |-> None, confidence |-> None]

\* What geminiService.analyzeImageWithGemini yields: a rejection, or the
\* parsed JSON object, whose fields may be absent.  Amounts are in cents.
GeminiOutcomes ==
    { GeminiNull,
      GeminiRecord("Acme Mug", Some(1000), Some(2000), Some(90)),
      GeminiRecord("Acme Mug", Some(5000), Some(15000), Some(90)),
      GeminiRecord("Acme Mug", Some(0), Some(2000), Some(90)),
      GeminiRecord(Null, None, None, Some(0)),
      GeminiRecord(Null, Some(1000), None, None),
      GeminiRecord("Acme Mug", Some(-3000), Some(1000), Some(90)) }

\* What searchService.searchProductPrice yields: a rejection, or the list of
\* items.  An item stands for its title and snippet and is the sequence of
\* amounts (in cents) the price patterns match in that text, in match order.
SearchOutcomes ==
    { [ok |-> FALSE, items |-> <<>>],
      [ok |-> TRUE, items |-> <<>>],
      [ok |-> TRUE, items |-> << <<25>> >>],
      [ok |-> TRUE, items |-> << <<25, 999999900, 1999>> >>],
      [ok |-> TRUE, items |-> << <<1500, 500>>, <<2000, 1000>> >>] }

\* What cryptoService.getCryptoPrices(ids) yields: a rejection, or an object
\* keyed by asset id, listed in key order.  usd is the asset's price in cents.
RateOf(id, usd) == [id |-> id, usd |-> usd]
RatesOutcomes(ids) ==
    { [ok |-> FALSE, data |-> <<>>],
      [ok |-> TRUE, data |-> <<>>],
      [ok |-> TRUE, data |-> [i \in 1..Len(ids) |-> RateOf(ids[i], Some(5000000))]],
      [ok |-> TRUE, data |-> [i \in 1..Len(ids) |->
                                 RateOf(ids[i], IF i = 1 THEN None
                                                ELSE IF i = 2 THEN Some(0)
                                                ELSE Some(5000000))]] }

----------------------------------------------------------------------------
\* services/api.js : priceUtils

\* price > 0.50 && price < 10000, in cents
MinPriceCents == 50
MaxPriceCents == 1000000
\* (InPriceRange_Inclusive: price >= 0.50 && price <= 10000.)
InPriceRange_Inclusive(price) == price >= MinPriceCents /\ price <= MaxPriceCents
InPriceRange(price) == price > MinPriceCents /\ price < MaxPriceCents

\* extractPriceFromText: the in-range matches of a text, or null.
ExtractPriceFromText(text) ==
    LET prices == SelectSeq(text, InPriceRange)
    IN IF Len(prices) > 0 THEN Some(prices) ELSE None

\* searchResults.forEach(...): allPrices, in push order.
RECURSIVE AllPrices(_)
AllPrices(results) ==
    IF results = <<>> THEN <<>>
    ELSE LET prices == ExtractPriceFromText(Head(results))
         IN (IF prices # None THEN prices[1] ELSE <<>>)
            \o AllPrices(Tail(results))

\* Math.floor(allPrices.length / 2), as a 1-based position.
\* (MiddleIndex_Lower: Math.floor((allPrices.length - 1) / 2).)
MiddleIndex_Lower(n) == ((n - 1) \div 2) + 1
MiddleIndex(n) == (n \div 2) + 1

\* extractPricesFromSearchResults: one number, or null.
ExtractPricesFromSearchResults(results) ==
    LET allPrices == AllPrices(results)
        sorted == SortSeq(allPrices, LAMBDA a, b : a < b)
    IN IF Len(allPrices) > 0
       THEN Some(sorted[MiddleIndex(Len(sorted))])
       ELSE None

----------------------------------------------------------------------------
\* services/api.js : geminiService.fallbackParseResponse

\* What the five patterns capture in a text: the trimmed first group of the
\* product name and category patterns, the number parseFloat and parseInt
\* read from the first group of the others; Null and None where a pattern
\* does not match.  Amounts are in cents.
Captures(name, min, max, category, confidence) ==
    [product_name |-> name, price_min |-> min, price_max |-> max,
     category |-> category, confidence |-> confidence]
NoCaptures == Captures(Null, None, None, Null, None)

\* detectedObjects[0]?.name: the objects passed are the label annotations of
\* the recognition (visionResult.labels), which carry a description and a
\* score and no name.
NameOfLabel(label) == Null

\* || 1, || 50 (dollars), || 50
DefaultPriceMin == 100
DefaultPriceMax == 5000
DefaultParsedConfidence == 50

FallbackParseResponse(text, objects) ==
    [product_name |->
        IF TruthyStr(text.product_name) THEN text.product_name
        ELSE IF Len(objects) > 0 /\ TruthyStr(NameOfLabel(objects[1]))
             THEN NameOfLabel(objects[1])
             ELSE "Unknown Product",
     estimated_price_min |->
        IF TruthyNum(text.price_min) THEN text.price_min[1] ELSE DefaultPriceMin,
     estimated_price_max |->
        IF TruthyNum(text.price_max) THEN text.price_max[1] ELSE DefaultPriceMax,
     category |->
        IF TruthyStr(text.category) THEN text.category ELSE "general",
     confidence |->
        IF TruthyNum(text.confidence) THEN text.confidence[1]
        ELSE DefaultParsedConfidence]

----------------------------------------------------------------------------
\* App.jsx : handleImageAnalysis and convertToCrypto

VisionFailedMessage == "Failed to analyze image"
NoObjectsMessage == "Could not identify any objects in the image"
PriceUnavailableMessage == "Price information not available for this product."
RatesFailedMessage == "Failed to fetch cryptocurrency prices"

\* !visionResult.labels || visionResult.labels.length === 0
\* (NoLabels_Unchecked: the test left out.)
NoLabels_Unchecked(labels) == FALSE
NoLabels(labels) == Len(labels) = 0

\* geminiResult?.product_name || visionResult.labels[0]?.description
\*   || 'Unknown Product'
ProductName(gemini, labels) ==
    IF gemini.ok /\ TruthyStr(gemini.product_name) THEN gemini.product_name
    ELSE IF Len(labels) > 0 /\ TruthyStr(labels[1]) THEN labels[1]
    ELSE "Unknown Product"

\* geminiResult?.confidence || 50
DefaultConfidence == 50
Confidence(gemini) ==
    IF gemini.ok /\ TruthyNum(gemini.confidence) THEN gemini.confidence[1]
    ELSE DefaultConfidence

Estimate(price, source) == [price |-> price, source |-> source]

\* extractedPrices.length > 0, where extractedPrices is the number that
\* extractPricesFromSearchResults returned: the length of a number is
\* undefined, and undefined > 0 is false.
LengthPositive(extractedPrices) == FALSE

\* The try block around the search.  A rejected search, and the TypeError of
\* reading .length of null, are caught and leave the estimate as it was.
SearchEstimate(searchOk, extractedPrices) ==
    IF ~searchOk \/ extractedPrices = None
    THEN Estimate(None, "unknown")
    ELSE IF LengthPositive(extractedPrices)
         THEN Estimate(extractedPrices, "search")
         ELSE Estimate(None, "unknown")

\* if (!estimatedPrice && geminiResult?.estimated_price_min
\*     && geminiResult?.estimated_price_max)
\* The amounts drawn are even, so that the halving is exact.
\* (FallbackEstimate_Untagged: priceSource = 'ai_estimate' left out.)
FallbackEstimate_Untagged(estimate, gemini) ==
    IF /\ ~TruthyNum(estimate.price)
       /\ gemini.ok
       /\ TruthyNum(gemini.estimated_price_min)
       /\ TruthyNum(gemini.estimated_price_max)
    THEN Estimate(Some((gemini.estimated_price_min[1]
                        + gemini.estimated_price_max[1]) \div 2), estimate.source)
    ELSE estimate
FallbackEstimate(estimate, gemini) ==
    IF /\ ~TruthyNum(estimate.price)
       /\ gemini.ok
       /\ TruthyNum(gemini.estimated_price_min)
       /\ TruthyNum(gemini.estimated_price_max)
    THEN Estimate(Some((gemini.estimated_price_min[1]
                        + gemini.estimated_price_max[1]) \div 2), "ai_estimate")
    ELSE estimate

\* if (estimatedPrice && estimatedPrice > 0)
\* (HasPrice_AnyValue: any value that is not null accepted.)
HasPrice_AnyValue(estimatedPrice) == estimatedPrice # None
HasPrice(estimatedPrice) == TruthyNum(estimatedPrice) /\ estimatedPrice[1] > 0

\* convertToCrypto: !usdPrice || isNaN(usdPrice) || usdPrice <= 0
InvalidUsdPrice(usdPrice) == ~TruthyNum(usdPrice) \/ usdPrice[1] <= 0

\* Object.keys(cryptoData).map(...).filter(Boolean); cryptoAmount is the
\* quotient usdAmount / cryptoPrice, kept as its two terms.
\* (Conversions_Inverted: cryptoAmount: priceInfo.usd / usdPrice;
\* Conversions_KeepZero: if (priceInfo.usd === undefined) return null.)
Conversions_Inverted(cryptoData, usdPrice) ==
    LET usable == SelectSeq(cryptoData, LAMBDA info : TruthyNum(info.usd))
    IN [i \in 1..Len(usable) |->
          [id |-> usable[i].id,
           cryptoAmount |-> <<usable[i].usd[1], usdPrice>>,
           cryptoPrice |-> usable[i].usd[1],
           usdAmount |-> usdPrice]]
Conversions_KeepZero(cryptoData, usdPrice) ==
    LET usable == SelectSeq(cryptoData, LAMBDA info : info.usd # None)
    IN [i \in 1..Len(usable) |->
          [id |-> usable[i].id,
           cryptoAmount |-> <<usdPrice, usable[i].usd[1]>>,
           cryptoPrice |-> usable[i].usd[1],
           usdAmount |-> usdPrice]]
Conversions(cryptoData, usdPrice) ==
    LET usable == SelectSeq(cryptoData, LAMBDA info : TruthyNum(info.usd))
    IN [i \in 1..Len(usable) |->
          [id |-> usable[i].id,
           cryptoAmount |-> <<usdPrice, usable[i].usd[1]>>,
           cryptoPrice |-> usable[i].usd[1],
           usdAmount |-> usdPrice]]

\* catch (error) { ...; return null } of convertToCrypto: the error that
\* leaves convertToCrypto, none.
\* (ConvertToCryptoCatch_Rethrows: the catch block throws the error on.)
ConvertToCryptoCatch_Rethrows(message) == message
ConvertToCryptoCatch(message) == Null

\* catch (error) { setError(error.message) }
\* (CatchAnalysisError_Swallowed: the error logged and not shown.)
CatchAnalysisError_Swallowed(message) == Null
CatchAnalysisError(message) == message

IdleTask ==
    [pc |-> "idle", visionOk |-> FALSE, labels |-> <<>>, gemini |-> GeminiNull,
     productName |-> Null, confidence |-> 0,
     searchOk |-> FALSE, extracted |-> None,
     estimatedPrice |-> None, priceSource |-> "unknown",
     rates |-> "none", cryptoData |-> <<>>,
     calls |-> <<>>,
     errorSet |-> Null, resultSet |-> FALSE, priceSet |-> FALSE,
     prices |-> <<>>,
     quiet |-> TRUE, afterReset |-> FALSE,
     ids |-> <<>>, selectedAtStart |-> <<>>]

Running(t) == task[t].pc \notin {"idle", "done"}

\* The slot a new invocation takes.
FreeTasks == {t \in Tasks : ~Running(t)}
FreeTask ==
    IF \E t \in FreeTasks : task[t].pc = "idle"
    THEN CHOOSE t \in FreeTasks : task[t].pc = "idle"
    ELSE CHOOSE t \in FreeTasks : TRUE

\* History: quiet[t] holds while nothing but invocation t has written the
\* component's state since t started; afterReset[t] holds while t is in flight,
\* resetAnalysis was invoked since it started and no analysis started since.
Disturbed(t) ==
    IF task[t].pc = "idle" THEN task[t] ELSE [task[t] EXCEPT !.quiet = FALSE]

\* handleImageAnalysis up to its first await: the state is cleared and the
\* recognition request is issued.
StartAnalysis(t, closure) ==
    /\ isLoading' = TRUE
    /\ error' = Null
    /\ analysisResult' = None
    /\ productPrice' = None
    /\ cryptoConversions' = <<>>
    /\ task' = [o \in Tasks |->
                  IF o = t
                  THEN [IdleTask EXCEPT !.pc = "vision", !.calls = <<"vision">>,
                                        !.ids = closure,
                                        !.selectedAtStart = selectedCryptos,
                                        !.quiet = \A r \in Tasks : ~Running(r)]
                  ELSE [Disturbed(o) EXCEPT !.afterReset = FALSE]]
    /\ numStarts' = numStarts + 1

\* useState([...]): the selection of the first render.
InitialSelection == <<"bitcoin", "ethereum", "litecoin", "dogecoin">>

\* useCallback(() => {...}, []): captureImage stays the function of the first
\* render, and with it the handleImageAnalysis and convertToCrypto of that
\* render, which read the selectedCryptos of that render.
CaptureClosure == InitialSelection

\* captureImage, from the Capture Photo button (shown while no image is
\* captured, disabled while isLoading).
CaptureImage ==
    /\ UNCHANGED <<quotaVars, helperVars, ratesVars, closureVars>>
    /\ ~isLoading
    /\ capturedImage = Null
    /\ numStarts + pendingReads < MaxStarts
    /\ FreeTasks # {}
    /\ capturedImage' = "image"
    /\ StartAnalysis(FreeTask, CaptureClosure)
    /\ UNCHANGED <<selectedCryptos, pendingReads>>

\* handleFileUpload, from the Upload Image button (same conditions): the
\* FileReader starts to read the file.
\* handleFileUpload is the function of the render current at the click, so
\* its onload holds the selection of that render.
HandleFileUpload ==
    /\ UNCHANGED <<quotaVars, helperVars, ratesVars>>
    /\ ~isLoading
    /\ capturedImage = Null
    /\ numStarts + pendingReads < MaxStarts
    /\ pendingReads' = pendingReads + 1
    /\ readClosures' = Append(readClosures, selectedCryptos)
    /\ UNCHANGED <<uiVars, task, numStarts, numToggles>>

\* seq without its i-th element.
Without(seq, i) ==
    [k \in 1..(Len(seq) - 1) |-> IF k < i THEN seq[k] ELSE seq[k + 1]]

\* reader.onload, of any of the reads in flight
ReaderOnload ==
    /\ UNCHANGED <<quotaVars, helperVars, ratesVars>>
    /\ pendingReads > 0
    /\ FreeTasks # {}
    /\ pendingReads' = pendingReads - 1
    /\ capturedImage' = "image"
    /\ \E i \in 1..Len(readClosures) :
         /\ StartAnalysis(FreeTask, readClosures[i])
         /\ readClosures' = Without(readClosures, i)
    /\ UNCHANGED <<selectedCryptos, numToggles>>

\* reader.onerror
ReaderOnerror ==
    /\ UNCHANGED <<quotaVars, helperVars, ratesVars>>
    /\ pendingReads > 0
    /\ pendingReads' = pendingReads - 1
    /\ \E i \in 1..Len(readClosures) : readClosures' = Without(readClosures, i)
    /\ UNCHANGED numToggles
    /\ UNCHANGED <<uiVars, task, numStarts>>

\* Variant: the catch block without the finally block.
AnalysisFails_NoFinally(t, labels, visionOk, message) ==
    /\ error' = CatchAnalysisError(message)
    /\ task' = [task EXCEPT ![t].pc = "done", ![t].labels = labels,
                            ![t].visionOk = visionOk,
                            ![t].errorSet = CatchAnalysisError(message)]
    /\ UNCHANGED <<isLoading, capturedImage, analysisResult, productPrice,
                   cryptoConversions, selectedCryptos>>

\* catch (error) and finally of handleImageAnalysis.
AnalysisFails(t, labels, visionOk, message) ==
    /\ error' = CatchAnalysisError(message)
    /\ isLoading' = FALSE
    /\ task' = [task EXCEPT ![t].pc = "done", ![t].labels = labels,
                            ![t].visionOk = visionOk,
                            ![t].errorSet = CatchAnalysisError(message)]
    /\ UNCHANGED <<capturedImage, analysisResult, productPrice,
                   cryptoConversions, selectedCryptos>>

\* visionService.analyzeImage settles.
VisionResolves(t) ==
    /\ UNCHANGED <<quotaVars, helperVars, ratesVars, closureVars>>
    /\ task[t].pc = "vision"
    /\ \E outcome \in VisionOutcomes :
         IF ~outcome.ok
         THEN AnalysisFails(t, <<>>, FALSE, VisionFailedMessage)
         ELSE IF NoLabels(outcome.labels)
              THEN AnalysisFails(t, outcome.labels, TRUE, NoObjectsMessage)
              ELSE /\ task' = [task EXCEPT ![t].pc = "gemini",
                                           ![t].visionOk = TRUE,
                                           ![t].labels = outcome.labels,
                                           ![t].calls = Append(@, "gemini")]
                   /\ UNCHANGED uiVars
    /\ UNCHANGED <<pendingReads, numStarts>>

\* geminiService.analyzeImageWithGemini settles; the product name and the
\* confidence are resolved and the search is issued.
GeminiResolves(t) ==
    /\ UNCHANGED <<quotaVars, helperVars, ratesVars, closureVars>>
    /\ task[t].pc = "gemini"
    /\ \E gemini \in GeminiOutcomes :
         task' = [task EXCEPT ![t].pc = "search",
                              ![t].gemini = gemini,
                              ![t].productName = ProductName(gemini, task[t].labels),
                              ![t].confidence = Confidence(gemini),
                              ![t].calls = Append(@, "search")]
    /\ UNCHANGED <<uiVars, pendingReads, numStarts>>

\* The value passed to setAnalysisResult.
AnalysisResultOf(r, estimatedPrice, conversions) ==
    [productName |-> r.productName, estimatedPrice |-> estimatedPrice,
     cryptoConversions |-> conversions, confidence |-> r.confidence,
     vision |-> r.labels, gemini |-> r.gemini]

\* setAnalysisResult and finally, at the end of the try block.
AnalysisCompletes(t, r, conversions) ==
    /\ analysisResult' = Some(AnalysisResultOf(r, r.estimatedPrice, conversions))
    /\ isLoading' = FALSE
    /\ task' = [task EXCEPT ![t] = [r EXCEPT !.pc = "done", !.resultSet = TRUE]]

\* The value passed to setProductPrice.
ProductPriceOf(r) ==
    [amount |-> r.estimatedPrice[1], source |-> r.priceSource,
     productName |-> r.productName]

\* History: the invocation has called setProductPrice with ProductPriceOf(r).
PriceSetBy(r) ==
    [r EXCEPT !.priceSet = TRUE, !.prices = Append(@, ProductPriceOf(r))]

\* searchService.searchProductPrice settles; the estimate is decided.  With
\* a price the market rates are requested, without one the analysis ends.
SearchResolves(t) ==
    /\ UNCHANGED <<quotaVars, helperVars, ratesVars, closureVars>>
    /\ task[t].pc = "search"
    /\ \E outcome \in SearchOutcomes :
         LET extracted == IF outcome.ok
                          THEN ExtractPricesFromSearchResults(outcome.items)
                          ELSE None
             estimate == FallbackEstimate(SearchEstimate(outcome.ok, extracted),
                                          task[t].gemini)
             r == [task[t] EXCEPT !.searchOk = outcome.ok,
                                  !.extracted = extracted,
                                  !.estimatedPrice = estimate.price,
                                  !.priceSource = estimate.source]
         IN IF HasPrice(estimate.price)
            THEN /\ productPrice' = Some(ProductPriceOf(r))
                 /\ IF InvalidUsdPrice(estimate.price)
                    THEN /\ AnalysisCompletes(t, PriceSetBy(r), None)
                         /\ UNCHANGED <<capturedImage, cryptoConversions,
                                        selectedCryptos, error>>
                    ELSE /\ task' = [task EXCEPT ![t] =
                                       [PriceSetBy(r) EXCEPT
                                          !.pc = "rates",
                                          !.calls = Append(@, "rates")]]
                         /\ UNCHANGED <<isLoading, capturedImage, analysisResult,
                                        cryptoConversions, selectedCryptos, error>>
            ELSE /\ error' = PriceUnavailableMessage
                 /\ AnalysisCompletes(t, [r EXCEPT !.errorSet = PriceUnavailableMessage],
                                      None)
                 /\ UNCHANGED <<capturedImage, productPrice, cryptoConversions,
                                selectedCryptos>>
    /\ UNCHANGED <<pendingReads, numStarts>>

\* Variant: the rates last stored in the cryptoPrices state, when there are any.
CryptoDataOf_FromState(response, state) ==
    IF state # None THEN state[1] ELSE response

\* const cryptoData = await cryptoService.getCryptoPrices(selectedCryptos):
\* the rates converted are the response to the request convertToCrypto made
\* itself; the cryptoPrices state is not read.
CryptoDataOf(response, state) == response

\* cryptoService.getCryptoPrices settles inside convertToCrypto; the
\* conversions are stored and the analysis ends.
RatesResolves(t) ==
    /\ UNCHANGED <<quotaVars, helperVars, ratesVars, closureVars>>
    /\ task[t].pc = "rates"
    /\ \E outcome \in RatesOutcomes(task[t].ids) :
         IF outcome.ok
         THEN LET cryptoData == CryptoDataOf(outcome.data, cryptoPrices)
                  conversions == Conversions(cryptoData, task[t].estimatedPrice[1])
                  r == [task[t] EXCEPT !.rates = "fulfilled",
                                       !.cryptoData = outcome.data]
              IN /\ cryptoConversions' = conversions
                 /\ AnalysisCompletes(t, r, Some(conversions))
                 /\ UNCHANGED error
         ELSE LET thrown == ConvertToCryptoCatch(RatesFailedMessage)
                  r == [task[t] EXCEPT !.rates = "rejected"]
              IN IF thrown = Null
                 THEN /\ AnalysisCompletes(t, r, None)
                      /\ UNCHANGED <<cryptoConversions, error>>
                 ELSE /\ error' = CatchAnalysisError(thrown)
                      /\ isLoading' = FALSE
                      /\ task' = [task EXCEPT ![t] =
                                    [r EXCEPT !.pc = "done",
                                              !.errorSet = CatchAnalysisError(thrown)]]
                      /\ UNCHANGED <<analysisResult, cryptoConversions>>
    /\ UNCHANGED <<capturedImage, productPrice, selectedCryptos,
                   pendingReads, numStarts>>

\* loadCryptoPrices called: by the effect on mount and on a change of the
\* selection, and by its 60 s interval.  The request carries the selection.
MaxLoads == 1
LoadCryptoPrices ==
    /\ UNCHANGED <<quotaVars, helperVars, closureVars>>
    /\ numLoads < MaxLoads
    /\ priceLoads' = Append(priceLoads, selectedCryptos)
    /\ numLoads' = numLoads + 1
    /\ UNCHANGED <<uiVars, pendingReads, task, numStarts, cryptoPrices>>

\* A loadCryptoPrices request settles, in any order: setCryptoPrices(prices) on
\* a response, a console message only on a rejection.
PricesResolve ==
    /\ UNCHANGED <<quotaVars, helperVars, closureVars>>
    /\ \E i \in 1..Len(priceLoads) :
         /\ \E outcome \in RatesOutcomes(priceLoads[i]) :
              cryptoPrices' = IF outcome.ok THEN Some(outcome.data) ELSE cryptoPrices
         /\ priceLoads' = [k \in 1..(Len(priceLoads) - 1) |->
                             IF k < i THEN priceLoads[k] ELSE priceLoads[k + 1]]
    /\ UNCHANGED <<uiVars, pendingReads, task, numStarts, numLoads>>

\* Checkboxes of the settings panel that are clicked (one asset of the
\* initial selection, one outside it), and how often.
ToggleIds == {"dogecoin", "cardano"}
MaxToggles == 1

Includes(seq, x) == \E i \in 1..Len(seq) : seq[i] = x

\* prev.filter(id => id !== cryptoId)
Filtered(seq, x) == SelectSeq(seq, LAMBDA id : id # x)

\* toggleCrypto(cryptoId): the asset is removed or appended; a selection that
\* would become empty is kept as it is.
ToggleCrypto ==
    /\ UNCHANGED <<quotaVars, helperVars, ratesVars>>
    /\ numToggles < MaxToggles
    /\ \E cryptoId \in ToggleIds :
         LET newSelection == IF Includes(selectedCryptos, cryptoId)
                             THEN Filtered(selectedCryptos, cryptoId)
                             ELSE Append(selectedCryptos, cryptoId)
         IN selectedCryptos' = IF Len(newSelection) = 0 THEN selectedCryptos
                               ELSE newSelection
    /\ numToggles' = numToggles + 1
    /\ UNCHANGED <<isLoading, capturedImage, analysisResult, productPrice,
                   cryptoConversions, error, pendingReads, task, numStarts,
                   readClosures>>

\* resetAnalysis, from the Reset, Remove image and Try Again buttons.
ResetAnalysis ==
    /\ UNCHANGED <<quotaVars, helperVars, ratesVars, closureVars>>
    /\ capturedImage' = Null
    /\ analysisResult' = None
    /\ productPrice' = None
    /\ cryptoConversions' = <<>>
    /\ error' = Null
    /\ task' = [t \in Tasks |-> [Disturbed(t) EXCEPT !.afterReset = Running(t)]]
    /\ UNCHANGED <<isLoading, selectedCryptos, pendingReads, numStarts>>

Next ==
    \/ CaptureImage
    \/ HandleFileUpload
    \/ ReaderOnload
    \/ ReaderOnerror
    \/ \E t \in Tasks : VisionResolves(t)
    \/ \E t \in Tasks : GeminiResolves(t)
    \/ \E t \in Tasks : SearchResolves(t)
    \/ \E t \in Tasks : RatesResolves(t)
    \/ ResetAnalysis

----------------------------------------------------------------------------
\* Specifications.

\* The limiter under concurrent callers; the component stays as constructed.
QuotaInit ==
    /\ dailyUsage = [d \in DocIds |-> NoDoc]
    /\ today = 1
    /\ now = 0
    /\ tzOffset = 0
    /\ maxUsesPerDay \in 0..MaxLimit
    /\ fingerprint \in [Callers -> Fingerprints]
    /\ call = [c \in Callers |-> IdleCall]
    /\ numCalls = 0
    /\ allowedCalls = [d \in DocIds |-> 0]
    /\ env = FullBrowser
    /\ usage = [c \in Callers |-> IdleUsage]
    /\ numUsageCalls = 0
    /\ isLoading = FALSE
    /\ capturedImage = Null
    /\ analysisResult = None
    /\ productPrice = None
    /\ cryptoConversions = <<>>
    /\ selectedCryptos = <<"bitcoin", "ethereum", "litecoin", "dogecoin">>
    /\ error = Null
    /\ pendingReads = 0
    /\ task = [t \in Tasks |-> IdleTask]
    /\ numStarts = 0
    /\ cryptoPrices = None
    /\ priceLoads = <<>>
    /\ numLoads = 0
    /\ readClosures = <<>>
    /\ numToggles = 0
    /\ signals = [e \in Environments |-> NoSignals]
    /\ userIds = [e \in Environments |-> None]
    /\ searchResults = <<>>
    /\ returned = <<>>
    /\ responseText = NoCaptures
    /\ detectedObjects = <<>>
    /\ parsed = None

QuotaSpec == QuotaInit /\ [][QuotaNext]_vars

----------------------------------------------------------------------------
\* rateLimitService.getCurrentUsage next to checkDailyLimit, in the tabs of
\* one browser within one day.

UsageNext ==
    \/ \E c \in Callers : GetCurrentUsage(c)
    \/ \E c \in Callers : UsageGetDoc(c)
    \/ \E c \in Callers : UsageStoreFails(c)
    \/ \E c \in Callers : TakeUsage(c)
    \/ \E c \in Callers : CheckDailyLimit(c)
    \/ \E c \in Callers : GetDoc(c)
    \/ \E c \in Callers : UpdateDoc(c)
    \/ \E c \in Callers : SetDoc(c)
    \/ \E c \in Callers : StoreFails(c)
    \/ \E c \in Callers : TakeResult(c)

UsageInit ==
    /\ dailyUsage = [d \in DocIds |-> NoDoc]
    /\ today = 1
    /\ now = 0
    /\ tzOffset = 0
    /\ maxUsesPerDay = MaxLimit
    /\ fingerprint = [c \in Callers |-> "user_A"]
    /\ call = [c \in Callers |-> IdleCall]
    /\ numCalls = 0
    /\ allowedCalls = [d \in DocIds |-> 0]
    /\ env \in Browsers
    /\ usage = [c \in Callers |-> IdleUsage]
    /\ numUsageCalls = 0
    /\ isLoading = FALSE
    /\ capturedImage = Null
    /\ analysisResult = None
    /\ productPrice = None
    /\ cryptoConversions = <<>>
    /\ selectedCryptos = <<"bitcoin", "ethereum", "litecoin", "dogecoin">>
    /\ error = Null
    /\ pendingReads = 0
    /\ task = [t \in Tasks |-> IdleTask]
    /\ numStarts = 0
    /\ cryptoPrices = None
    /\ priceLoads = <<>>
    /\ numLoads = 0
    /\ readClosures = <<>>
    /\ numToggles = 0
    /\ signals = [e \in Environments |-> NoSignals]
    /\ userIds = [e \in Environments |-> None]
    /\ searchResults = <<>>
    /\ returned = <<>>
    /\ responseText = NoCaptures
    /\ detectedObjects = <<>>
    /\ parsed = None

UsageSpec == UsageInit /\ [][UsageNext]_vars

----------------------------------------------------------------------------
\* rateLimitService.checkDailyLimit on the clock of a client whose local
\* time differs from UTC.

\* Time zones of the client: half a day behind UTC, UTC, half a day ahead.
TzOffsets == {-1, 0, 1}

\* One tick passes; the calendar day of UTC follows the clock.
TimePasses ==
    /\ UNCHANGED <<appVars, helperVars, usageVars>>
    /\ UtcDay(now + 1) <= MaxDay
    /\ now' = now + 1
    /\ today' = UtcDay(now + 1)
    /\ UNCHANGED <<tzOffset, dailyUsage, maxUsesPerDay, fingerprint, call,
                   numCalls, allowedCalls>>

ResetNext ==
    \/ \E c \in Callers : CheckDailyLimit(c)
    \/ \E c \in Callers : GetDoc(c)
    \/ \E c \in Callers : UpdateDoc(c)
    \/ \E c \in Callers : SetDoc(c)
    \/ \E c \in Callers : StoreFails(c)
    \/ \E c \in Callers : TakeResult(c)
    \/ TimePasses

\* One client (one fingerprint) in one time zone.
ResetInit ==
    /\ dailyUsage = [d \in DocIds |-> NoDoc]
    /\ today = 1
    /\ now = 0
    /\ tzOffset \in TzOffsets
    /\ maxUsesPerDay \in 1..MaxLimit
    /\ fingerprint = [c \in Callers |-> "user_A"]
    /\ call = [c \in Callers |-> IdleCall]
    /\ numCalls = 0
    /\ allowedCalls = [d \in DocIds |-> 0]
    /\ env = FullBrowser
    /\ usage = [c \in Callers |-> IdleUsage]
    /\ numUsageCalls = 0
    /\ isLoading = FALSE
    /\ capturedImage = Null
    /\ analysisResult = None
    /\ productPrice = None
    /\ cryptoConversions = <<>>
    /\ selectedCryptos = <<"bitcoin", "ethereum", "litecoin", "dogecoin">>
    /\ error = Null
    /\ pendingReads = 0
    /\ task = [t \in Tasks |-> IdleTask]
    /\ numStarts = 0
    /\ cryptoPrices = None
    /\ priceLoads = <<>>
    /\ numLoads = 0
    /\ readClosures = <<>>
    /\ numToggles = 0
    /\ signals = [e \in Environments |-> NoSignals]
    /\ userIds = [e \in Environments |-> None]
    /\ searchResults = <<>>
    /\ returned = <<>>
    /\ responseText = NoCaptures
    /\ detectedObjects = <<>>
    /\ parsed = None

ResetSpec == ResetInit /\ [][ResetNext]_vars

\* The component; nothing in it calls the limiter, whose store stays empty.
Init ==
    /\ dailyUsage = [d \in DocIds |-> NoDoc]
    /\ today = 1
    /\ now = 0
    /\ tzOffset = 0
    /\ maxUsesPerDay = MaxLimit
    /\ fingerprint = [c \in Callers |-> "user_A"]
    /\ call = [c \in Callers |-> IdleCall]
    /\ numCalls = 0
    /\ allowedCalls = [d \in DocIds |-> 0]
    /\ env = FullBrowser
    /\ usage = [c \in Callers |-> IdleUsage]
    /\ numUsageCalls = 0
    /\ isLoading = FALSE
    /\ capturedImage = Null
    /\ analysisResult = None
    /\ productPrice = None
    /\ cryptoConversions = <<>>
    /\ selectedCryptos = <<"bitcoin", "ethereum", "litecoin", "dogecoin">>
    /\ error = Null
    /\ pendingReads = 0
    /\ task = [t \in Tasks |-> IdleTask]
    /\ numStarts = 0
    /\ cryptoPrices = None
    /\ priceLoads = <<>>
    /\ numLoads = 0
    /\ readClosures = <<>>
    /\ numToggles = 0
    /\ signals = [e \in Environments |-> NoSignals]
    /\ userIds = [e \in Environments |-> None]
    /\ searchResults = <<>>
    /\ returned = <<>>
    /\ responseText = NoCaptures
    /\ detectedObjects = <<>>
    /\ parsed = None

Spec == Init /\ [][Next]_vars

----------------------------------------------------------------------------
\* services/api.js : priceUtils.extractPricesFromSearchResults, called any
\* number of times on one list of search results.

\* Matches (title and snippet together) in the items of one list.
MaxMatches == 4
\* Calls of extractPricesFromSearchResults on the list.
MaxExtractCalls == 2

\* Amounts the price patterns match, in cents: both ends of the accepted
\* range ($0.50 and $10000) and four amounts inside it.
MatchedAmounts == {50, 500, 1000, 1500, 2000, 1000000}

\* The texts with up to n matches.
TextsUpTo(n) == UNION {[1..m -> MatchedAmounts] : m \in 0..n}

\* The lists a caller passes: no item, or two items sharing up to MaxMatches
\* matches.
SearchResultLists ==
    {<<>>} \cup
    UNION {{<<SubSeq(text, 1, k), SubSeq(text, k + 1, Len(text))>> :
              k \in 0..Len(text)} : text \in TextsUpTo(MaxMatches)}

\* allPrices.push({ price, source: result.title, url: result.link }) for
\* the items from the k-th on; the item's position stands for its title.
RECURSIVE PricesFrom(_, _)
PricesFrom(results, k) ==
    IF k > Len(results) THEN <<>>
    ELSE LET prices == ExtractPriceFromText(results[k])
         IN (IF prices # None
             THEN [i \in 1..Len(prices[1]) |->
                     [price |-> prices[1][i], source |-> k]]
             ELSE <<>>)
            \o PricesFrom(results, k + 1)

\* (a, b) => a.price - b.price
\* (ComparePrices_NoOrder: a comparator that prefers no order;
\* ComparePrices_Descending: the operands exchanged.)
ComparePrices_NoOrder(a, b) == 0
ComparePrices_Descending(a, b) == b.price - a.price
ComparePrices(a, b) == a.price - b.price

\* allPrices.sort(compare): the orders the sort may leave the array in.
\* Which of two elements the comparator calls equal comes first depends on
\* the engine.
SortedArrays(allPrices) ==
    LET n == Len(allPrices)
        orders == {o \in Permutations(1..n) :
                     \A i, j \in 1..n :
                        i < j => ComparePrices(allPrices[o[i]], allPrices[o[j]]) <= 0}
    IN {[i \in 1..n |-> allPrices[o[i]]] : o \in orders}

\* The values a call of extractPricesFromSearchResults may return.
ExtractResults(results) ==
    LET allPrices == PricesFrom(results, 1)
    IN IF Len(allPrices) > 0
       THEN {Some(sorted[MiddleIndex(Len(sorted))].price) :
               sorted \in SortedArrays(allPrices)}
       ELSE {None}

\* One call of priceUtils.extractPricesFromSearchResults(searchResults).
\* The function reads its argument and sorts its own array.
ExtractCall ==
    /\ Len(returned) < MaxExtractCalls
    /\ \E result \in ExtractResults(searchResults) :
         returned' = Append(returned, result)
    /\ UNCHANGED searchResults
    /\ UNCHANGED <<quotaVars, appVars, parserVars, signalVars>>

ExtractNext == ExtractCall

ExtractInit ==
    /\ dailyUsage = [d \in DocIds |-> NoDoc]
    /\ today = 1
    /\ now = 0
    /\ tzOffset = 0
    /\ maxUsesPerDay = MaxLimit
    /\ fingerprint = [c \in Callers |-> "user_A"]
    /\ call = [c \in Callers |-> IdleCall]
    /\ numCalls = 0
    /\ allowedCalls = [d \in DocIds |-> 0]
    /\ env = FullBrowser
    /\ usage = [c \in Callers |-> IdleUsage]
    /\ numUsageCalls = 0
    /\ isLoading = FALSE
    /\ capturedImage = Null
    /\ analysisResult = None
    /\ productPrice = None
    /\ cryptoConversions = <<>>
    /\ selectedCryptos = <<"bitcoin", "ethereum", "litecoin", "dogecoin">>
    /\ error = Null
    /\ pendingReads = 0
    /\ task = [t \in Tasks |-> IdleTask]
    /\ numStarts = 0
    /\ cryptoPrices = None
    /\ priceLoads = <<>>
    /\ numLoads = 0
    /\ readClosures = <<>>
    /\ numToggles = 0
    /\ signals = [e \in Environments |-> NoSignals]
    /\ userIds = [e \in Environments |-> None]
    /\ searchResults \in SearchResultLists
    /\ returned = <<>>
    /\ responseText = NoCaptures
    /\ detectedObjects = <<>>
    /\ parsed = None

ExtractSpec == ExtractInit /\ [][ExtractNext]_vars

----------------------------------------------------------------------------
\* services/api.js : geminiService.fallbackParseResponse, called on its own.

\* The texts passed: every pattern matches or not, a matched number may be 0
\* and a matched name may be blank.
ResponseTexts ==
    {Captures(name, min, max, category, confidence) :
        name \in {Null, "", "Acme Mug"},
        min \in {None, Some(0), Some(1250)},
        max \in {None, Some(0), Some(2000)},
        category \in {Null, "kitchen"},
        confidence \in {None, Some(0), Some(90)}}

\* The label lists passed, by description.
LabelLists == {<<>>, <<"Mug", "Cup">>}

\* One call of geminiService.fallbackParseResponse(text, detectedObjects).
FallbackParseCall ==
    /\ parsed = None
    /\ parsed' = Some(FallbackParseResponse(responseText, detectedObjects))
    /\ UNCHANGED <<responseText, detectedObjects>>
    /\ UNCHANGED <<quotaVars, appVars, utilVars, signalVars>>

ParseNext == FallbackParseCall

ParseInit ==
    /\ dailyUsage = [d \in DocIds |-> NoDoc]
    /\ today = 1
    /\ now = 0
    /\ tzOffset = 0
    /\ maxUsesPerDay = MaxLimit
    /\ fingerprint = [c \in Callers |-> "user_A"]
    /\ call = [c \in Callers |-> IdleCall]
    /\ numCalls = 0
    /\ allowedCalls = [d \in DocIds |-> 0]
    /\ env = FullBrowser
    /\ usage = [c \in Callers |-> IdleUsage]
    /\ numUsageCalls = 0
    /\ isLoading = FALSE
    /\ capturedImage = Null
    /\ analysisResult = None
    /\ productPrice = None
    /\ cryptoConversions = <<>>
    /\ selectedCryptos = <<"bitcoin", "ethereum", "litecoin", "dogecoin">>
    /\ error = Null
    /\ pendingReads = 0
    /\ task = [t \in Tasks |-> IdleTask]
    /\ numStarts = 0
    /\ cryptoPrices = None
    /\ priceLoads = <<>>
    /\ numLoads = 0
    /\ readClosures = <<>>
    /\ numToggles = 0
    /\ signals = [e \in Environments |-> NoSignals]
    /\ userIds = [e \in Environments |-> None]
    /\ searchResults = <<>>
    /\ returned = <<>>
    /\ responseText \in ResponseTexts
    /\ detectedObjects \in LabelLists
    /\ parsed = None

ParseSpec == ParseInit /\ [][ParseNext]_vars

----------------------------------------------------------------------------
\* Claims about rateLimitService.checkDailyLimit, checked under QuotaSpec.

\* An invocation that has returned, that no other invocation on the same
\* document overlapped, and whose store operations all succeeded.
SoloSucceeded(c) ==
    call[c].pc = "returned" /\ call[c].solo /\ call[c].failedAt = Null

\* C2: a checkDailyLimit(maxPerDay) call that no call on the same
\* (fingerprint, day) record overlaps and whose store operations succeed
\* returns allowed and stores count+1 when the record exists with
\* count < maxPerDay; creates the record with count 1 and returns allowed with
\* used 1 when the record is absent (maxPerDay >= 1); and fails with the daily
\* limit error, writing nothing and leaving the record as it was, when the
\* record exists with count >= maxPerDay.
C2_SequentialCheckAndIncrement ==
    \A c \in Callers :
        SoloSucceeded(c) =>
            LET r == call[c]
                stored == dailyUsage[r.docId]
            IN /\ (r.snap.exists /\ r.snap.count < maxUsesPerDay) =>
                    /\ r.result.success
                    /\ r.result.currentCount = r.snap.count + 1
                    /\ r.result.remaining = maxUsesPerDay - (r.snap.count + 1)
                    /\ stored = Doc(r.snap.count + 1)
               /\ (~r.snap.exists /\ maxUsesPerDay >= 1) =>
                    /\ r.result.success
                    /\ r.result.currentCount = 1
                    /\ r.result.remaining = maxUsesPerDay - 1
                    /\ stored = Doc(1)
               /\ (r.snap.exists /\ r.snap.count >= maxUsesPerDay) =>
                    /\ ~r.result.success
                    /\ r.result.message = DailyLimitMessage
                    /\ ~r.wrote
                    /\ stored = r.snap

\* C2 witness: undisturbed calls have created the record, raised it to the
\* limit of 2, and a further undisturbed call has just been rejected.
C2_Witness ==
    \E c \in Callers :
        /\ SoloSucceeded(c)
        /\ maxUsesPerDay = 2
        /\ call[c].snap = Doc(2)
        /\ ~call[c].result.success
        /\ allowedCalls[call[c].docId] = 2

\* C3: with every call made with the same maxPerDay >= 1, the stored count of
\* each (fingerprint, day) record is at most maxPerDay in every reachable
\* state, whatever the interleaving of the calls.
C3_CountAtMostLimit ==
    maxUsesPerDay >= 1 =>
        \A d \in DocIds : dailyUsage[d].exists => dailyUsage[d].count <= maxUsesPerDay

\* C3 witness: a record stands at the limit after calls raced on it (more
\* calls were allowed than the record counts).
C3_Witness ==
    \E d \in DocIds :
        /\ maxUsesPerDay >= 2
        /\ dailyUsage[d] = Doc(maxUsesPerDay)
        /\ allowedCalls[d] > maxUsesPerDay

\* C4: with at most k = Cardinality(Callers) calls in flight at any time, the
\* calls that return allowed for one (fingerprint, day) key exceed maxPerDay
\* by at most k.
C4_OvershootAtMostRacers ==
    \A d \in DocIds : allowedCalls[d] <= maxUsesPerDay + Cardinality(Callers)

\* C5: whenever the store read or the store write fails, the call fails with
\* an error that is not the daily limit error, and never returns allowed.
C5_FailsClosed ==
    \A c \in Callers :
        (call[c].pc = "returned" /\ call[c].failedAt # Null) =>
            /\ ~call[c].result.success
            /\ call[c].result.message = UnableMessage
            /\ ~IncludesDailyLimit(call[c].result.message)

\* C5 witness: one call failed at its read and another at its write.
C5_Witness ==
    \E c, o \in Callers :
        /\ call[c].pc = "returned" /\ call[c].failedAt = "getDoc"
        /\ call[o].pc = "returned" /\ call[o].failedAt \in {"updateDoc", "setDoc"}

----------------------------------------------------------------------------
\* Claims about handleImageAnalysis, checked under Spec.

Done(t) == task[t].pc = "done"

\* Recognition succeeded with at least one label.
Recognized(t) == task[t].visionOk /\ Len(task[t].labels) > 0

\* The price decided by the search path and the enrichment fallback is
\* absent or not positive.
NoPriceObtained(t) ==
    task[t].estimatedPrice = None \/ task[t].estimatedPrice[1] <= 0

\* C1: in every analysis started by handleImageAnalysis the quota check
\* (rateLimitService.checkDailyLimit) is the first external operation, ahead
\* of any recognition, enrichment, search or market-rate call.
C1_QuotaCheckFirst ==
    \A t \in Tasks :
        task[t].calls # <<>> => Head(task[t].calls) = "checkDailyLimit"

\* C6: when recognition fails or returns zero labels the analysis ends in the
\* error outcome, with no analysis result and no price estimate, and makes no
\* enrichment, search or market-rate call.
C6_RecognitionFailureStops ==
    \A t \in Tasks :
        (Done(t) /\ ~Recognized(t)) =>
            /\ task[t].errorSet \in {VisionFailedMessage, NoObjectsMessage}
            /\ ~task[t].resultSet
            /\ ~task[t].priceSet
            /\ task[t].calls = <<"vision">>
            /\ task[t].quiet =>
                 /\ error = task[t].errorSet
                 /\ analysisResult = None
                 /\ productPrice = None
                 /\ cryptoConversions = <<>>
                 /\ ~isLoading

\* C6 witness: an undisturbed analysis ended on a recognition that returned
\* zero labels.
C6_Witness ==
    \E t \in Tasks :
        /\ Done(t) /\ task[t].quiet
        /\ task[t].visionOk /\ task[t].labels = <<>>
        /\ error = NoObjectsMessage

\* C7: when enrichment fails, recognition succeeds and the search returns
\* results from which extractPricesFromSearchResults extracts a price, the
\* analysis ends successfully with that price as its estimate, tagged
\* "search", and with enrichment absent.
C7_SearchPriceUsed ==
    \A t \in Tasks :
        (/\ Done(t) /\ Recognized(t)
         /\ ~task[t].gemini.ok
         /\ task[t].searchOk /\ task[t].extracted # None) =>
            /\ task[t].resultSet
            /\ task[t].errorSet = Null
            /\ task[t].priceSet
            /\ task[t].estimatedPrice = task[t].extracted
            /\ task[t].priceSource = "search"
            /\ task[t].quiet =>
                 /\ productPrice # None
                 /\ productPrice[1].amount = task[t].extracted[1]
                 /\ productPrice[1].source = "search"
                 /\ analysisResult # None
                 /\ analysisResult[1].gemini = GeminiNull

\* Enrichment supplied both a minimum and a maximum estimate, neither of them
\* negative.
BothEstimatesSupplied(gemini) ==
    /\ gemini.ok
    /\ gemini.estimated_price_min # None /\ gemini.estimated_price_min[1] >= 0
    /\ gemini.estimated_price_max # None /\ gemini.estimated_price_max[1] >= 0

\* C8: whenever the search fails or yields no extractable price and
\* enrichment supplied both a minimum and a maximum estimate (a minimum of 0
\* included), the analysis produces the estimate (min+max)/2 tagged
\* "ai_estimate".
C8_FallbackIsMidpoint ==
    \A t \in Tasks :
        (/\ Done(t) /\ Recognized(t)
         /\ (~task[t].searchOk \/ task[t].extracted = None)
         /\ BothEstimatesSupplied(task[t].gemini)) =>
            /\ task[t].priceSet
            /\ task[t].estimatedPrice =
                 Some((task[t].gemini.estimated_price_min[1]
                       + task[t].gemini.estimated_price_max[1]) \div 2)
            /\ task[t].priceSource = "ai_estimate"

RatesRejected(t) == Done(t) /\ task[t].rates = "rejected"

\* C11: a failure of the market-rate call after a price estimate was
\* obtained is not fatal: the analysis still ends as a success that carries
\* the price estimate and its source, with no conversions and no error.
C11_RatesFailureNotFatal ==
    \A t \in Tasks :
        RatesRejected(t) =>
            /\ task[t].resultSet
            /\ task[t].errorSet = Null
            /\ task[t].priceSet
            /\ task[t].quiet =>
                 /\ error = Null
                 /\ ~isLoading
                 /\ cryptoConversions = <<>>
                 /\ productPrice = Some(ProductPriceOf(task[t]))
                 /\ analysisResult # None
                 /\ analysisResult[1].estimatedPrice = task[t].estimatedPrice
                 /\ analysisResult[1].cryptoConversions = None

C11_Witness ==
    \E t \in Tasks :
        /\ RatesRejected(t) /\ task[t].quiet
        /\ productPrice # None /\ productPrice[1].source = "ai_estimate"
        /\ analysisResult # None
        /\ error = Null

----------------------------------------------------------------------------
\* Claims about priceUtils, checked under ExtractSpec.

\* The matches of the list, as positions <<item, match>>.
Matches ==
    {m \in (1..Len(searchResults)) \X (1..MaxMatches + 1) :
        m[2] <= Len(searchResults[m[1]])}
AmountAt(m) == searchResults[m[1]][m[2]]

\* The candidates: the matches whose amount is above $0.50 and below $10000.
Candidates ==
    {m \in Matches : AmountAt(m) > MinPriceCents /\ AmountAt(m) < MaxPriceCents}

\* C12: for every non-empty list of n in-range candidates collected from the
\* snippets, extractPricesFromSearchResults returns the element at index
\* floor(n/2) of the candidates sorted ascending by amount: the amount of one
\* of the candidates, with at most floor(n/2) candidates below it and more
\* than floor(n/2) candidates not above it; never an average of two.
C12_ReturnsElementAtFloorHalf ==
    LET n == Cardinality(Candidates)
    IN \A i \in 1..Len(returned) :
          n > 0 =>
            /\ returned[i] # None
            /\ \E c \in Candidates : AmountAt(c) = returned[i][1]
            /\ Cardinality({c \in Candidates : AmountAt(c) < returned[i][1]})
                 <= n \div 2
            /\ Cardinality({c \in Candidates : AmountAt(c) <= returned[i][1]})
                 > n \div 2

\* Two candidates out of order whose average is no candidate.
C12_Witness ==
    /\ searchResults = << <<2000, 50>>, <<500>> >>
    /\ returned = <<Some(2000)>>

\* The amounts of the candidates in ascending order.
CandidateAmounts ==
    LET inRange(amount) == amount > MinPriceCents /\ amount < MaxPriceCents
        amounts == SelectSeq(searchResults[1], inRange)
                     \o SelectSeq(searchResults[2], inRange)
    IN IF searchResults = <<>> THEN <<>>
       ELSE SortSeq(amounts, LAMBDA a, b : a < b)

\* C13 as stated: for an even number of candidates the lower of the two
\* middle elements of the ascending order is returned ([5, 10, 15, 20] give
\* 10), for an odd number the middle element ([5, 10, 15] gives 10).
C13_ReturnsLowerMedian ==
    LET n == Len(CandidateAmounts)
    IN \A i \in 1..Len(returned) :
          n > 0 =>
            returned[i] = Some(CandidateAmounts[IF n % 2 = 0 THEN n \div 2
                                                ELSE (n + 1) \div 2])

\* C13 (amended): for an even number of candidates the upper of the two
\* middle elements of the ascending order is returned ([5, 10, 15, 20] give
\* 15, the element at index 2), for an odd number the middle element
\* ([5, 10, 15] gives 10).
C13_ReturnsUpperMedian ==
    LET n == Len(CandidateAmounts)
    IN /\ \A i \in 1..Len(returned) :
            n > 0 =>
              returned[i] = Some(CandidateAmounts[IF n % 2 = 0 THEN n \div 2 + 1
                                                  ELSE (n + 1) \div 2])
       /\ CandidateAmounts = <<500, 1000, 1500, 2000>> =>
            \A i \in 1..Len(returned) : returned[i] = Some(1500)
       /\ CandidateAmounts = <<500, 1000, 1500>> =>
            \A i \in 1..Len(returned) : returned[i] = Some(1000)

\* The candidates [5, 10, 15, 20], found out of order in two items.
C13_Witness ==
    /\ searchResults = << <<1500, 500>>, <<2000, 1000>> >>
    /\ returned = <<Some(1500)>>

\* C14: price extraction ignores out-of-range amounts: only matched amounts
\* strictly greater than $0.50 and strictly less than $10000 become
\* candidates, so any price returned lies strictly between the two, is the
\* amount of such a match, and the result is null exactly when no item holds
\* an in-range match.
C14_OnlyInRangeAmounts ==
    \A i \in 1..Len(returned) :
        /\ returned[i] # None =>
             /\ returned[i][1] > 50 /\ returned[i][1] < 1000000
             /\ \E m \in Matches : AmountAt(m) = returned[i][1]
        /\ returned[i] = None <=>
             \A m \in Matches : AmountAt(m) <= 50 \/ AmountAt(m) >= 1000000

\* Both ends of the range are matched next to one amount inside it.
C14_Witness ==
    /\ searchResults = << <<50, 1000000>>, <<1500>> >>
    /\ returned = <<Some(1500)>>

\* C15: extractPricesFromSearchResults is deterministic and free of side
\* effects on its input: every call on the same list returns the value the
\* first call returned, and leaves the list and its order as they were.
C15_DeterministicAndInputUnchanged ==
    [][ returned' # returned =>
          /\ searchResults' = searchResults
          /\ \A i \in 1..Len(returned') : returned'[i] = returned'[1] ]_vars

\* Two calls on a list whose candidates are out of order and hold one
\* amount twice.
C15_Witness ==
    /\ searchResults = << <<1500, 500>>, <<1500, 1000>> >>
    /\ returned = <<Some(1500), Some(1500)>>

----------------------------------------------------------------------------
\* Claims about convertToCrypto, checked under Spec.

\* The market-rate call of invocation t was answered.
RatesFulfilled(t) == Done(t) /\ task[t].rates = "fulfilled"

\* The conversions convertToCrypto returned to invocation t.
ConversionsOf(t) == Conversions(task[t].cryptoData, task[t].estimatedPrice[1])

\* The greatest common divisor of two naturals.
RECURSIVE GCD(_, _)
GCD(a, b) == IF b = 0 THEN a ELSE GCD(b, a % b)

\* A quotient numerator / denominator of positive terms, in lowest terms.
Lowest(quotient) ==
    LET d == GCD(quotient[1], quotient[2])
    IN <<quotient[1] \div d, quotient[2] \div d>>

\* convertedAmount * usdPrice = sourceUsdAmount, that is convertedAmount =
\* sourceUsdAmount / usdPrice, the two quotients compared in lowest terms.
QuotientTimesEquals(quotient, factor, product) ==
    /\ quotient[1] > 0 /\ quotient[2] > 0 /\ factor > 0 /\ product > 0
    /\ Lowest(quotient) = Lowest(<<product, factor>>)

\* C16: for every conversion produced by an analysis, convertedAmount =
\* priceEstimate.amount / usdPrice of that asset: convertedAmount * usdPrice
\* = sourceUsdAmount, and sourceUsdAmount is the analysis's price estimate;
\* amount 100 at rate 50000 gives 0.002 (2/1000).
C16_ConvertedAmountIsAmountOverRate ==
    /\ \A t \in Tasks :
         RatesFulfilled(t) /\ task[t].quiet =>
            /\ analysisResult # None
            /\ analysisResult[1].cryptoConversions = Some(cryptoConversions)
            /\ productPrice # None
            /\ \A i \in 1..Len(cryptoConversions) :
                 LET c == cryptoConversions[i]
                     rate == CHOOSE info \in {task[t].cryptoData[k] :
                                                k \in 1..Len(task[t].cryptoData)} :
                                info.id = c.id
                 IN /\ c.cryptoPrice = rate.usd[1]
                    /\ c.usdAmount = productPrice[1].amount
                    /\ c.usdAmount = analysisResult[1].estimatedPrice[1]
                    /\ QuotientTimesEquals(c.cryptoAmount, c.cryptoPrice, c.usdAmount)
                    /\ c.usdAmount = 10000 /\ c.cryptoPrice = 5000000 =>
                         QuotientTimesEquals(c.cryptoAmount, 1000, 2)
    /\ analysisResult # None /\ analysisResult[1].cryptoConversions # None =>
         \A i \in 1..Len(analysisResult[1].cryptoConversions[1]) :
            LET c == analysisResult[1].cryptoConversions[1][i]
            IN /\ c.usdAmount = analysisResult[1].estimatedPrice[1]
               /\ QuotientTimesEquals(c.cryptoAmount, c.cryptoPrice, c.usdAmount)

\* Amount 100 dollars at 50000 dollars a coin.
C16_Witness ==
    \E t \in Tasks :
        /\ RatesFulfilled(t) /\ task[t].quiet
        /\ Len(cryptoConversions) = 4
        /\ cryptoConversions[1].usdAmount = 10000
        /\ cryptoConversions[1].cryptoPrice = 5000000

\* The assets the market service returned to invocation t with a usable
\* rate (usd present and not zero), in the order returned.
UsableAssets(t) ==
    LET usable == SelectSeq(task[t].cryptoData,
                            LAMBDA info : info.usd # None /\ info.usd[1] # 0)
    IN [i \in 1..Len(usable) |-> usable[i].id]

\* C17: the conversions of an analysis contain exactly one entry for each
\* asset the market service returned with a usable (present, non-zero) USD
\* rate; an asset with a missing or unusable rate is left out, and neither
\* the analysis nor the other conversions turn into a failure.
C17_OneConversionPerUsableAsset ==
    \A t \in Tasks :
        RatesFulfilled(t) =>
            /\ task[t].resultSet
            /\ task[t].errorSet = Null
            /\ task[t].quiet =>
                 /\ error = Null
                 /\ analysisResult # None
                 /\ analysisResult[1].cryptoConversions = Some(cryptoConversions)
                 /\ [i \in 1..Len(cryptoConversions) |-> cryptoConversions[i].id]
                      = UsableAssets(t)
                 /\ \A i \in 1..Len(cryptoConversions) :
                      cryptoConversions[i].cryptoPrice > 0

\* The first asset came without a rate and the second with rate zero.
C17_Witness ==
    \E t \in Tasks :
        /\ RatesFulfilled(t) /\ task[t].quiet
        /\ Len(task[t].cryptoData) = 4
        /\ task[t].cryptoData[1].usd = None
        /\ task[t].cryptoData[2].usd = Some(0)
        /\ Len(cryptoConversions) = 2
        /\ error = Null

----------------------------------------------------------------------------
\* Claims about the resolved product name and confidence, checked under Spec.

\* Invocation t is past the enrichment step.
Enriched(t) == Recognized(t) /\ task[t].pc \in {"search", "rates", "done"}

\* C18: after recognition succeeds, the product name used for the search
\* and reported in the result is the enrichment's name whenever enrichment
\* supplied one and otherwise the top recognition label, and the reported
\* confidence is the enrichment's confidence whenever enrichment supplied
\* one (for every value 0..100, including 0) and otherwise 50.
C18_NameAndConfidenceResolved ==
    \A t \in Tasks :
        Enriched(t) =>
            /\ task[t].productName =
                 IF task[t].gemini.ok /\ task[t].gemini.product_name # Null
                 THEN task[t].gemini.product_name
                 ELSE task[t].labels[1]
            /\ task[t].confidence =
                 IF task[t].gemini.ok /\ task[t].gemini.confidence # None
                 THEN task[t].gemini.confidence[1]
                 ELSE 50
            /\ Done(t) /\ task[t].quiet /\ task[t].resultSet =>
                 /\ analysisResult # None
                 /\ analysisResult[1].productName = task[t].productName
                 /\ analysisResult[1].confidence = task[t].confidence

----------------------------------------------------------------------------
\* Claims about geminiService.fallbackParseResponse, checked under ParseSpec.

\* C19: the best-effort enrichment parser is total: for every response text
\* and every list of recognition labels it returns a fully populated record
\* and never fails, using the defaults min price 1, max price 50, confidence
\* 50, category "general" and, for the product name, the best (first)
\* recognition label for any field it cannot locate in the text.
C19_ParserTotalWithDefaults ==
    parsed # None =>
        LET record == parsed[1]
        IN /\ DOMAIN record = {"product_name", "estimated_price_min",
                               "estimated_price_max", "category", "confidence"}
           /\ record.product_name # Null /\ record.category # Null
           /\ responseText.price_min = None => record.estimated_price_min = 100
           /\ responseText.price_max = None => record.estimated_price_max = 5000
           /\ responseText.confidence = None => record.confidence = 50
           /\ responseText.category = Null => record.category = "general"
           /\ responseText.product_name = Null /\ detectedObjects # <<>> =>
                record.product_name = detectedObjects[1]

----------------------------------------------------------------------------
\* Claims about the price estimate of an analysis, checked under Spec.

\* C20: at most one price estimate is produced per analysis, and whenever
\* one is produced (setProductPrice is called) its amount is strictly
\* positive and its source is exactly "search" or "ai_estimate", never any
\* other tag such as the initial "unknown".
C20_OnePositiveTaggedEstimate ==
    /\ \A t \in Tasks :
         /\ Len(task[t].prices) <= 1
         /\ task[t].priceSet <=> Len(task[t].prices) = 1
         /\ \A i \in 1..Len(task[t].prices) :
              /\ task[t].prices[i].amount > 0
              /\ task[t].prices[i].source \in {"search", "ai_estimate"}
    /\ productPrice # None =>
         /\ productPrice[1].amount > 0
         /\ productPrice[1].source \in {"search", "ai_estimate"}

C20_Witness ==
    \E t \in Tasks :
        /\ Done(t) /\ task[t].quiet
        /\ Len(task[t].prices) = 1
        /\ productPrice = Some(task[t].prices[1])
        /\ productPrice[1].amount = 1500
        /\ productPrice[1].source = "ai_estimate"

----------------------------------------------------------------------------
\* Claims about the reported reset time, checked under ResetSpec.

\* Invocation c was rejected with the daily limit error.
LimitRejected(c) ==
    call[c].pc = "returned" /\ call[c].result.message = DailyLimitMessage

\* Invocation o of the same client was started, on the clock, after c
\* returned, and has itself returned with no store failure.
CheckedAfter(o, c) ==
    /\ o # c
    /\ call[o].pc = "returned" /\ call[o].failedAt = Null
    /\ call[o].startedAt > call[c].returnedAt
    /\ call[o].docId[1] = call[c].docId[1]

\* C21: the reported resetAt is the moment the quota actually resets: after
\* a daily-limit rejection, every further checkDailyLimit by the same
\* fingerprint before resetAt is also rejected, and a call at or after
\* resetAt is checked against a fresh record of a new day key, for every
\* client timezone offset.  (Stated for later calls whose store operations
\* succeed.)
C21_ResetTimeIsWhenQuotaResets ==
    \A c, o \in Callers :
        LimitRejected(c) /\ CheckedAfter(o, c) =>
            /\ call[o].startedAt < call[c].resetTime =>
                 call[o].result.message = DailyLimitMessage
            /\ call[o].startedAt >= call[c].resetTime =>
                 call[o].docId[2] > call[c].docId[2]

----------------------------------------------------------------------------
\* Claims about getCurrentUsage and generateUserId, checked under UsageSpec.

\* The getCurrentUsage invocation of c has returned to its caller.
UsageReturned(u) == u.pc = "returned"

\* C22: getCurrentUsage never fails: when the store read fails it returns
\* used = 0, remaining = maxPerDay, total = maxPerDay; and in no case does
\* it write to the usage store: no step of getCurrentUsage changes a record.
C22_UsageNeverFailsNorWrites ==
    [][ usage' # usage =>
          /\ dailyUsage' = dailyUsage
          /\ \A c \in Callers :
               UsageReturned(usage'[c]) =>
                  /\ ~UsageThrew(usage'[c].result)
                  /\ usage'[c].result.total = maxUsesPerDay
                  /\ usage'[c].result.used + usage'[c].result.remaining
                       = maxUsesPerDay
                  /\ usage'[c].failedAt # Null =>
                       usage'[c].result = [used |-> 0,
                                           remaining |-> maxUsesPerDay,
                                           total |-> maxUsesPerDay] ]_vars

\* The read failed for a caller while the record counts one use.
C22_Witness ==
    \E c \in Callers :
        /\ UsageReturned(usage[c]) /\ usage[c].failedAt = "getDoc"
        /\ dailyUsage[usage[c].docId] = Doc(1)
        /\ usage[c].result.used = 0

\* C24: generateUserId has no failure mode: when a sub-signal is unavailable
\* (no 2D canvas context, or signal text that cannot be base64-encoded) it
\* returns a fingerprint rather than throwing, so no invocation of
\* checkDailyLimit or getCurrentUsage ends in its catch block because of
\* generateUserId.
C24_GenerateUserIdNeverThrows ==
    \A c \in Callers :
        /\ call[c].failedAt # "generateUserId"
        /\ usage[c].failedAt # "generateUserId"

----------------------------------------------------------------------------
\* App.jsx : the analysis of captured images next to the periodic
\* loadCryptoPrices, which stores rates in the cryptoPrices state.  Uploads
\* are left to Spec.

CacheNext ==
    \/ CaptureImage
    \/ \E t \in Tasks : VisionResolves(t)
    \/ \E t \in Tasks : GeminiResolves(t)
    \/ \E t \in Tasks : SearchResolves(t)
    \/ \E t \in Tasks : RatesResolves(t)
    \/ ResetAnalysis
    \/ LoadCryptoPrices
    \/ PricesResolve

CacheSpec == Init /\ [][CacheNext]_vars

\* The rates request of t was the last call of its analysis, made once its
\* price estimate was set.
RatesRequestedAfterPrice(t) ==
    /\ Len(task[t].calls) > 0
    /\ task[t].calls[Len(task[t].calls)] = "rates"
    /\ \A i \in 1..(Len(task[t].calls) - 1) : task[t].calls[i] # "rates"
    /\ task[t].priceSet
    /\ task[t].estimatedPrice # None

\* C25: the conversions an analysis shows are computed from the response to
\* the rates request that analysis made itself, after its price estimate was
\* set; the rates loadCryptoPrices stored in the cryptoPrices state are not used.
C25_ConversionsFromOwnRatesCall ==
    \A t \in Tasks :
        (task[t].pc = "done" /\ task[t].rates = "fulfilled") =>
            /\ RatesRequestedAfterPrice(t)
            /\ task[t].resultSet
            /\ task[t].quiet =>
                  /\ cryptoConversions =
                         Conversions(task[t].cryptoData, task[t].estimatedPrice[1])
                  /\ analysisResult # None
                  /\ analysisResult[1].cryptoConversions = Some(cryptoConversions)

\* An analysis finished with conversions while the cryptoPrices state held
\* other rates than the ones its own request returned.
C25_Witness ==
    \E t \in Tasks :
        /\ task[t].pc = "done"
        /\ task[t].rates = "fulfilled"
        /\ task[t].quiet
        /\ cryptoPrices # None
        /\ cryptoPrices[1] # task[t].cryptoData
        /\ Conversions(cryptoPrices[1], task[t].estimatedPrice[1]) # cryptoConversions
        /\ cryptoConversions = Conversions(task[t].cryptoData, task[t].estimatedPrice[1])
        /\ cryptoConversions # <<>>

----------------------------------------------------------------------------
\* App.jsx : handleImageAnalysis when every request it awaits settles.  The
\* requests go through axios instances with a timeout (api.js 10-18) or are
\* assumed to settle, so a pending await is eventually resumed.

ExternalCallsSettle ==
    \A t \in Tasks :
        /\ WF_vars(VisionResolves(t))
        /\ WF_vars(GeminiResolves(t))
        /\ WF_vars(SearchResolves(t))
        /\ WF_vars(RatesResolves(t))

\* Analyses of captured images; an upload starts the same handleImageAnalysis.
LiveNext ==
    \/ CaptureImage
    \/ \E t \in Tasks : VisionResolves(t)
    \/ \E t \in Tasks : GeminiResolves(t)
    \/ \E t \in Tasks : SearchResolves(t)
    \/ \E t \in Tasks : RatesResolves(t)
    \/ ResetAnalysis

LiveSpec == Init /\ [][LiveNext]_vars /\ ExternalCallsSettle

\* C26: every started analysis reaches its end, and the step that ends it
\* sets isLoading to false, whichever stage failed.
C26_AnalysisTerminates ==
    /\ \A t \in Tasks : Running(t) ~> (task[t].pc = "done")
    /\ [][\A t \in Tasks :
            (Running(t) /\ task'[t].pc = "done") => ~isLoading']_vars

\* An analysis ended after its search and its rates request both failed, and
\* isLoading is false.
C26_Witness ==
    \E t \in Tasks :
        /\ task[t].pc = "done"
        /\ task[t].visionOk
        /\ ~task[t].searchOk
        /\ task[t].rates = "rejected"
        /\ ~isLoading

\* C27: the stored count of each (fingerprint, day) record equals the number
\* of checkDailyLimit calls that returned allowed for that key, in every
\* reachable state, whatever the interleaving of the calls.
C27_CountEqualsAllowedCalls ==
    \A d \in DocIds : CountOf(dailyUsage[d]) = allowedCalls[d]

\* C28: within one day the stored count of a (fingerprint, day) record never
\* decreases: no write of a call replaces a larger count stored by another.
C28_CountNeverDecreases ==
    [][\A d \in DocIds : CountOf(dailyUsage'[d]) >= CountOf(dailyUsage[d])]_vars

\* C29: every allowed result of checkDailyLimit, for every maxPerDay >= 0 and
\* every stored count, has currentCount + remaining = maxPerDay,
\* 1 <= currentCount <= maxPerDay and remaining >= 0.
C29_AllowedResultWithinLimit ==
    \A c \in Callers :
        (call[c].pc = "returned" /\ call[c].result.success) =>
            LET r == call[c].result
            IN /\ r.currentCount + r.remaining = maxUsesPerDay
               /\ 1 <= r.currentCount
               /\ r.currentCount <= maxUsesPerDay
               /\ r.remaining >= 0

\* The four pieces of state resetAnalysis clears and the result view shows.
Displayed == <<analysisResult, productPrice, cryptoConversions, error>>

\* C30: after resetAnalysis the displayed result, price estimate, conversions
\* and error stay cleared until a new analysis is started; an analysis that
\* was in flight when resetAnalysis was invoked writes none of them.
C30_ResetStaysCleared ==
    [][\A t \in Tasks :
          (Running(t) /\ task[t].afterReset /\ task'[t].pc # task[t].pc) =>
              Displayed' = Displayed]_vars

\* C31: at most one analysis is in flight at a time: no handleImageAnalysis is
\* started while isLoading is true, from captureImage or from reader.onload.
C31_OneAnalysisInFlight ==
    Cardinality({t \in Tasks : Running(t)}) <= 1

----------------------------------------------------------------------------
\* App.jsx : analyses started from the camera and from uploads while the
\* selection of assets is edited.

SelectNext ==
    \/ ToggleCrypto
    \/ CaptureImage
    \/ HandleFileUpload
    \/ ReaderOnload
    \/ ReaderOnerror
    \/ \E t \in Tasks : VisionResolves(t)
    \/ \E t \in Tasks : GeminiResolves(t)
    \/ \E t \in Tasks : SearchResolves(t)
    \/ \E t \in Tasks : RatesResolves(t)

SelectSpec == Init /\ [][SelectNext]_vars

\* The ids of a list of rates or of conversions, in order.
IdsOf(rows) == [i \in 1..Len(rows) |-> rows[i].id]

\* C32: the assets an analysis requests rates for, and converts into, are the
\* assets selected when that analysis started, after any toggleCrypto
\* operations and for captures and uploads alike.
C32_AssetsAreSelectionAtStart ==
    \A t \in Tasks :
        task[t].pc # "idle" =>
            /\ task[t].ids = task[t].selectedAtStart
            /\ (task[t].rates = "fulfilled" /\ task[t].cryptoData # <<>>) =>
                   IdsOf(task[t].cryptoData) = task[t].selectedAtStart

----------------------------------------------------------------------------
\* services/firebase.js : rateLimitService.generateUserId, called in two
\* environments whose signals are compared.

\* "Mozilla/5.0 (", the start of the user agents explored, as character codes.
UserAgentStart == <<77, 111, 122, 105, 108, 108, 97, 47, 53, 46, 48, 32, 40>>
\* What follows it: up to MaxTail characters out of "W" and "X".
MaxTail == 3
TailChars == {87, 88}

RECURSIVE SeqsOver(_, _)
SeqsOver(chars, n) ==
    IF n = 0 THEN {<<>>}
    ELSE {Append(q, c) : q \in SeqsOver(chars, n - 1), c \in chars}

UserAgents ==
    {UserAgentStart \o tail : tail \in UNION {SeqsOver(TailChars, n) : n \in 1..MaxTail}}

\* language + platform + screen size + timezone offset + canvas tail:
\* "en", "de0", "en-US60"
Rests == {<<101, 110>>, <<100, 101, 48>>, <<101, 110, 45, 85, 83, 54, 48>>}

SignalSets == {Signals(ua, rest) : ua \in UserAgents, rest \in Rests}

\* navigator.userAgent + navigator.language + ... + canvasData.slice(-50)
Concatenated(sig) == sig.userAgent \o sig.rest

\* btoa: every three characters give four base64 digits (here the digit
\* values 0..63), an incomplete last group is filled with "=" (here Pad).
Pad == 64
Btoa(bytes) ==
    LET n == Len(bytes)
        At(i) == IF i <= n THEN bytes[i] ELSE 0
        Digit(k) ==
            LET g == (k - 1) \div 4
                j == (k - 1) % 4
                b1 == At(3 * g + 1)
                b2 == At(3 * g + 2)
                b3 == At(3 * g + 3)
            IN CASE j = 0 -> b1 \div 4
                 [] j = 1 -> (b1 % 4) * 16 + (b2 \div 16)
                 [] j = 2 -> IF 3 * g + 2 > n THEN Pad
                             ELSE (b2 % 16) * 4 + (b3 \div 64)
                 [] j = 3 -> IF 3 * g + 3 > n THEN Pad ELSE b3 % 64
    IN [k \in 1..(4 * ((n + 2) \div 3)) |-> Digit(k)]

\* s.slice(0, n)
Take(s, n) == SubSeq(s, 1, IF n < Len(s) THEN n ELSE Len(s))

\* Variant: the encoded text kept whole.
FingerprintOf_Unsliced(encoded) == encoded

\* btoa(...).slice(0, 20)
FingerprintLength == 20
FingerprintOf(encoded) == Take(encoded, FingerprintLength)

\* `user_${fingerprint}`
UserIdOf(digits) == [prefix |-> "user_", fingerprint |-> digits]

\* generateUserId() is called in environment e, a browser with every signal.
GenerateUserIdIn(e) ==
    /\ userIds[e] = None
    /\ LET fingerprintText == FingerprintOf(Btoa(Concatenated(signals[e])))
           generated == GenerateUserId(FullBrowser, UserIdOf(fingerprintText))
       IN userIds' = [userIds EXCEPT ![e] = Some(generated.userId)]
    /\ UNCHANGED <<quotaVars, appVars, utilVars, parserVars, signals>>

SignalNext == \E e \in Environments : GenerateUserIdIn(e)

SignalInit ==
    /\ dailyUsage = [d \in DocIds |-> NoDoc]
    /\ today = 1
    /\ now = 0
    /\ tzOffset = 0
    /\ maxUsesPerDay = MaxLimit
    /\ fingerprint = [c \in Callers |-> "user_A"]
    /\ call = [c \in Callers |-> IdleCall]
    /\ numCalls = 0
    /\ allowedCalls = [d \in DocIds |-> 0]
    /\ env = FullBrowser
    /\ usage = [c \in Callers |-> IdleUsage]
    /\ numUsageCalls = 0
    /\ isLoading = FALSE
    /\ capturedImage = Null
    /\ analysisResult = None
    /\ productPrice = None
    /\ cryptoConversions = <<>>
    /\ selectedCryptos = <<"bitcoin", "ethereum", "litecoin", "dogecoin">>
    /\ error = Null
    /\ pendingReads = 0
    /\ task = [t \in Tasks |-> IdleTask]
    /\ numStarts = 0
    /\ cryptoPrices = None
    /\ priceLoads = <<>>
    /\ numLoads = 0
    /\ readClosures = <<>>
    /\ numToggles = 0
    /\ signals \in [Environments -> SignalSets]
    /\ userIds = [e \in Environments |-> None]
    /\ searchResults = <<>>
    /\ returned = <<>>
    /\ responseText = NoCaptures
    /\ detectedObjects = <<>>
    /\ parsed = None

SignalSpec == SignalInit /\ [][SignalNext]_vars

\* Characters of the concatenated text that reach the fingerprint: the
\* FingerprintLength digits kept encode three characters per four digits.
SignificantChars == (FingerprintLength \div 4) * 3

\* C33: two environments whose user agents have at least 15 characters and
\* agree on the first 15 get the same id, and so the same usage record for
\* each day, whatever the rest of their signals.
C33_FingerprintFromFirst15Chars ==
    \A a, b \in Environments :
        (/\ userIds[a] # None
         /\ userIds[b] # None
         /\ Len(signals[a].userAgent) >= 15
         /\ Len(signals[b].userAgent) >= 15
         /\ Take(signals[a].userAgent, 15) = Take(signals[b].userAgent, 15)) =>
            /\ userIds[a] = userIds[b]
            /\ \A d \in Days : DocIdOf(userIds[a][1], d) = DocIdOf(userIds[b][1], d)

\* Both environments have their id; their user agents agree on 15 characters
\* and differ after them, the rest of their signals differs, the ids agree.
C33_Witness ==
    /\ userIds["e1"] # None
    /\ userIds["e2"] # None
    /\ SignificantChars = 15
    /\ Len(signals["e1"].userAgent) > 15
    /\ Len(signals["e2"].userAgent) > 15
    /\ Take(signals["e1"].userAgent, 15) = Take(signals["e2"].userAgent, 15)
    /\ signals["e1"].userAgent # signals["e2"].userAgent
    /\ signals["e1"].rest # signals["e2"].rest
    /\ userIds["e1"] = userIds["e2"]
    /\ Len(userIds["e1"][1].fingerprint) = FingerprintLength

====
